---- MODULE Spec2Model ----
(***************************************************************************)
(* Model of streaming::stream_result_future                                *)
(* (src/streaming/stream_result_future.hh).                                *)
(*                                                                         *)
(* The class that is compiled has the constructor, init,                   *)
(* create_and_register, init_receiving_side and add_event_listener.  The   *)
(* block of lines 134-212 (getCurrentState, handleSessionPrepared,         *)
(* handleSessionComplete, handleProgress, fireStreamEvent, maybeComplete)  *)
(* is inside "#if 0", as are the body of init_receiving_side (lines        *)
(* 99-110) and, as comments, the calls of lines 71, 116 and 130: none of   *)
(* it is part of the class, and the model has no step for it.  The class   *)
(* therefore has no entry point through which a session could report, no   *)
(* fan-out to the listeners and no statement that sets a result.           *)
(*                                                                         *)
(* stream_coordinator and the sessions are not part of the file; what the  *)
(* model needs of them is modelled from spec.md.                           *)
(***************************************************************************)
EXTENDS Integers, Sequences, FiniteSets, TLC

\* ---------------------------------------------------------------- bounds
MaxSessions == 2
MaxListeners == 2
MaxReceivingCalls == 2

\* -------------------------------------------------------------- variables
VARIABLES
    nSessions,      \* number of sessions the coordinator holds for the plan
    receiving,      \* coordinator.is_receiving()
    initListeners,  \* the listeners_ argument of init
    keeps,          \* the sessions whose init keeps the pointer it is given
    initPc,         \* position of the thread running init
    li,             \* init: index of the next listener to attach
    si,             \* init: index of the next session to initialise
    constructed,    \* the constructor has run
    alive,          \* the stream_result_future object exists
    holders,        \* the sessions that hold a shared_ptr to the object
    listeners,      \* _event_listeners
    wired,          \* session -> session->init(future) has been called
    started,        \* session -> the coordinator has connected it
    connectCalls,   \* number of connect_all_stream_sessions calls
    sessState,      \* session -> the session's own state
    cell,           \* the result the future has been given
    registry,       \* plan registry: the aggregators registered for the plan
    rcvCalls        \* number of init_receiving_side calls made

vars == <<nSessions, receiving, initListeners, keeps, initPc, li, si,
          constructed, alive, holders, listeners, wired, started,
          connectCalls, sessState, cell, registry, rcvCalls>>

Sessions == 1 .. nSessions

\* ------------------------------------------------------------ data model
NoSnapshot == <<>>
Pending == [status |-> "PENDING", snapshot |-> NoSnapshot]

Terminal == {"complete", "failed"}

\* coordinator: true iff some session has not reached a terminal state
has_active_sessions == \E s \in Sessions : sessState[s] \notin Terminal

is_receiving == receiving

\* ------------------------------------------------------------ constructor
\* variant: the result is set, and whatever the coordinator says
constructor_cell_always(c) ==
    [status |-> "SUCCEEDED", snapshot |-> NoSnapshot]

\* lines 65-73: the body of the if is the commented-out set(...), so the
\* constructor gives the future no result on either branch
constructor_cell(c) ==
    IF ~is_receiving /\ ~has_active_sessions THEN c ELSE c

\* ------------------------------------------------------------------ Init
Init ==
    /\ nSessions \in 0 .. MaxSessions
    /\ receiving \in BOOLEAN
    /\ initListeners \in {[i \in 1 .. k |-> i] : k \in 0 .. MaxListeners}
    /\ keeps \in SUBSET Sessions
    /\ initPc = "create"
    /\ li = 1
    /\ si = 1
    /\ constructed = FALSE
    /\ alive = FALSE
    /\ holders = {}
    /\ listeners = <<>>
    /\ wired = [s \in Sessions |-> FALSE]
    /\ started = [s \in Sessions |-> FALSE]
    /\ connectCalls = 0
    /\ sessState = [s \in Sessions |-> "initialized"]
    /\ cell = Pending
    /\ registry = {}
    /\ rcvCalls = 0

\* ------------------------------------------------------------------ init
\* variant: the sessions are connected before they are initialised
init_next_connectFirst(p) ==
    CASE p = "create" -> "listeners"
      [] p = "listeners" -> "connect"
      [] p = "connect" -> "connecting"
      [] p = "connecting" -> "sessions"
      [] OTHER -> "done"

\* the order of the statements of init, lines 83-94
init_next(p) ==
    CASE p = "create" -> "listeners"
      [] p = "listeners" -> "sessions"
      [] p = "sessions" -> "connect"
      [] p = "connect" -> "connecting"
      [] OTHER -> "done"

\* lines 129-132: push_back; nothing else is done with the listener
add_event_listener(ls, l) == Append(ls, l)

\* line 116: the registration is the FIXME comment, the registry is left as
\* it is
register(reg) == reg

\* line 83 and lines 114-118: make_shared runs the constructor; nothing is
\* registered; init's local variable is the only owner
create_and_register ==
    /\ initPc = "create"
    /\ constructed' = TRUE
    /\ alive' = TRUE
    /\ registry' = register(registry)
    /\ cell' = constructor_cell(cell)
    /\ initPc' = init_next(initPc)
    /\ UNCHANGED <<nSessions, receiving, initListeners, keeps, li, si,
                   holders, listeners, wired, started, connectCalls,
                   sessState, rcvCalls>>

\* lines 84-86, one iteration
InitAttachListener ==
    /\ initPc = "listeners"
    /\ li <= Len(initListeners)
    /\ listeners' = add_event_listener(listeners, initListeners[li])
    /\ li' = li + 1
    /\ UNCHANGED <<nSessions, receiving, initListeners, keeps, initPc, si,
                   constructed, alive, holders, wired, started, connectCalls,
                   sessState, cell, registry, rcvCalls>>

\* lines 84-86, loop exit
InitListenersDone ==
    /\ initPc = "listeners"
    /\ li > Len(initListeners)
    /\ initPc' = init_next(initPc)
    /\ UNCHANGED <<nSessions, receiving, initListeners, keeps, li, si,
                   constructed, alive, holders, listeners, wired, started,
                   connectCalls, sessState, cell, registry, rcvCalls>>

\* lines 91-93, one iteration: session->init(future); whether the session
\* keeps the pointer is the session's
InitSession ==
    /\ initPc = "sessions"
    /\ si <= nSessions
    /\ wired' = [wired EXCEPT ![si] = TRUE]
    /\ holders' = IF si \in keeps THEN holders \cup {si} ELSE holders
    /\ si' = si + 1
    /\ UNCHANGED <<nSessions, receiving, initListeners, keeps, initPc, li,
                   constructed, alive, listeners, started, connectCalls,
                   sessState, cell, registry, rcvCalls>>

\* lines 91-93, loop exit
InitSessionsDone ==
    /\ initPc = "sessions"
    /\ si > nSessions
    /\ initPc' = init_next(initPc)
    /\ UNCHANGED <<nSessions, receiving, initListeners, keeps, li, si,
                   constructed, alive, holders, listeners, wired, started,
                   connectCalls, sessState, cell, registry, rcvCalls>>

\* line 94: the call of connect_all_stream_sessions
InitConnect ==
    /\ initPc = "connect"
    /\ connectCalls' = connectCalls + 1
    /\ initPc' = init_next(initPc)
    /\ UNCHANGED <<nSessions, receiving, initListeners, keeps, li, si,
                   constructed, alive, holders, listeners, wired, started,
                   sessState, cell, registry, rcvCalls>>

\* coordinator, inside connect_all_stream_sessions: one session is opened
\* and from then on runs on its own
ConnectSession(s) ==
    /\ initPc = "connecting"
    /\ ~started[s]
    /\ started' = [started EXCEPT ![s] = TRUE]
    /\ UNCHANGED <<nSessions, receiving, initListeners, keeps, initPc, li,
                   si, constructed, alive, holders, listeners, wired,
                   connectCalls, sessState, cell, registry, rcvCalls>>

\* lines 94-95: connect_all_stream_sessions returns and init with it; the
\* local shared_ptr goes out of scope, and the object is destroyed, its
\* listener list with it, unless a session holds a pointer to it
InitReturn ==
    /\ initPc = "connecting"
    /\ \A s \in Sessions : started[s]
    /\ initPc' = init_next(initPc)
    /\ alive' = (holders # {})
    /\ listeners' = IF holders # {} THEN listeners ELSE <<>>
    /\ UNCHANGED <<nSessions, receiving, initListeners, keeps, li, si,
                   constructed, holders, wired, started, connectCalls,
                   sessState, cell, registry, rcvCalls>>

\* lines 129-132, called through a pointer that a session holds, after init
\* attached its own listeners
AddEventListener ==
    /\ alive
    /\ holders # {}
    /\ initPc \notin {"create", "listeners"}
    /\ Len(listeners) < MaxListeners
    /\ listeners' = add_event_listener(listeners, Len(listeners) + 1)
    /\ UNCHANGED <<nSessions, receiving, initListeners, keeps, initPc, li,
                   si, constructed, alive, holders, wired, started,
                   connectCalls, sessState, cell, registry, rcvCalls>>

\* --------------------------------------------------- init_receiving_side
\* lines 97-111: the body is disabled, the call looks nothing up, creates
\* nothing and registers nothing
init_receiving_side_registry(reg) == reg

init_receiving_side ==
    /\ rcvCalls < MaxReceivingCalls
    /\ rcvCalls' = rcvCalls + 1
    /\ registry' = init_receiving_side_registry(registry)
    /\ UNCHANGED <<nSessions, receiving, initListeners, keeps, initPc, li,
                   si, constructed, alive, holders, listeners, wired,
                   started, connectCalls, sessState, cell>>

\* --------------------------------------------------------------- sessions
\* The class has no member a session could call, so the steps of a session
\* change the session and nothing of the future.

\* session: the prepare phase of an opened session ends
SessionPrepares(s) ==
    /\ started[s]
    /\ sessState[s] = "initialized"
    /\ sessState' = [sessState EXCEPT ![s] = "prepared"]
    /\ UNCHANGED <<nSessions, receiving, initListeners, keeps, initPc, li,
                   si, constructed, alive, holders, listeners, wired,
                   started, connectCalls, cell, registry, rcvCalls>>

\* session: an opened session ends, completed or failed
SessionCloses(s, outcome) ==
    /\ started[s]
    /\ sessState[s] \notin Terminal
    /\ sessState' = [sessState EXCEPT ![s] = outcome]
    /\ UNCHANGED <<nSessions, receiving, initListeners, keeps, initPc, li,
                   si, constructed, alive, holders, listeners, wired,
                   started, connectCalls, cell, registry, rcvCalls>>

\* ------------------------------------------------------------------ Next
\* the node as initiator of the plan (init), as receiver of the plan's
\* first messages (init_receiving_side), and the plan's sessions
Next ==
    \/ init_receiving_side
    \/ create_and_register
    \/ InitAttachListener
    \/ InitListenersDone
    \/ InitSession
    \/ InitSessionsDone
    \/ InitConnect
    \/ \E s \in Sessions : ConnectSession(s)
    \/ InitReturn
    \/ AddEventListener
    \/ \E s \in Sessions : SessionPrepares(s)
    \/ \E s \in Sessions, o \in Terminal : SessionCloses(s, o)

Spec == Init /\ [][Next]_vars

\* ----------------------------------------------------------------- claims
AllTerminal == \A s \in Sessions : sessState[s] \in Terminal
Resolved == cell.status # "PENDING"

\* C2 (as claimed): with N >= 1 sessions, one of which has failed, the
\* future is never SUCCEEDED, and once init has returned and every session
\* is terminal the future, which a session still holds, is FAILED with a
\* snapshot that holds a failed session.
C2_FailedSessionFailsPlan ==
    /\ cell.status = "SUCCEEDED" =>
          \A s \in Sessions : sessState[s] # "failed"
    /\ (/\ alive
        /\ initPc = "done"
        /\ AllTerminal
        /\ \E s \in Sessions : sessState[s] = "failed")
          => /\ cell.status = "FAILED"
             /\ \E s \in DOMAIN cell.snapshot :
                   cell.snapshot[s].state = "failed"

\* C3 (as claimed): with N >= 1 sessions that have all completed, once init
\* has returned the future, which a session still holds, is SUCCEEDED and
\* its snapshot holds exactly N records, each completed.
C3_AllCompletedSucceeds ==
    (/\ alive
     /\ initPc = "done"
     /\ \A s \in Sessions : sessState[s] = "complete")
        => /\ cell.status = "SUCCEEDED"
           /\ DOMAIN cell.snapshot = Sessions
           /\ \A s \in Sessions : cell.snapshot[s].state = "complete"

\* C5 (as claimed): once constructed with a coordinator that is not
\* receiving and has no active session, the future is SUCCEEDED with an
\* empty snapshot for as long as it exists.
C5_EmptyPlanResolvesAtConstruction ==
    (alive /\ ~receiving /\ nSessions = 0)
        => /\ cell.status = "SUCCEEDED"
           /\ DOMAIN cell.snapshot = {}

\* C9: init attaches every listener it was given before it initialises a
\* session, calls connect_all_stream_sessions only after it has initialised
\* every session, and calls it exactly once.
C9_InitOrder ==
    /\ (alive /\ \E s \in Sessions : wired[s]) =>
          /\ Len(listeners) >= Len(initListeners)
          /\ SubSeq(listeners, 1, Len(initListeners)) = initListeners
    /\ connectCalls > 0 => \A s \in Sessions : wired[s]
    /\ (\E s \in Sessions : started[s]) => connectCalls > 0
    /\ connectCalls <= 1
    /\ initPc = "done" => connectCalls = 1

\* C9 witness: init has returned for a plan of two sessions and two
\* listeners, and the future is held by a session.
C9_Witness ==
    /\ initPc = "done"
    /\ alive
    /\ nSessions = 2
    /\ Len(initListeners) = 2
    /\ \A s \in Sessions : wired[s] /\ started[s]

\* C12 (as claimed): once init has created the aggregator it is registered
\* for its plan, before any session is initialised or connected.
C12_RegisteredByInit == constructed => registry # {}

\* C13 (as claimed): after the first init_receiving_side call for the plan
\* exactly one aggregator is registered for it, and never more than one.
C13_FindOrCreate ==
    /\ rcvCalls >= 1 => registry # {}
    /\ Cardinality(registry) <= 1

\* C20: a future constructed with a coordinator that is receiving or has an
\* active session has no result while a session is active or the plan has
\* no session: it is pending when the constructor returns, and a receiving
\* coordinator without sessions leaves it pending.
C20_PendingAfterConstruction ==
    (receiving \/ nSessions >= 1) =>
        (Resolved => nSessions >= 1 /\ AllTerminal)

\* C20 witness: the constructor has just returned, for a receiving
\* coordinator without sessions, and the future is pending.
C20_Witness ==
    /\ alive
    /\ initPc = "listeners"
    /\ receiving
    /\ nSessions = 0
    /\ cell.status = "PENDING"

====
